---- MODULE Spec2Model ----
(***************************************************************************)
(* Student Grade Management System (src/main.py).                          *)
(*                                                                         *)
(* The program is one global dict, student_grades, and a menu loop that    *)
(* dispatches to the functions of the module.  The model keeps             *)
(*   - text as sequences of one-character strings, so that strip(),        *)
(*     float(), str() and isdigit() are computed and not assumed;          *)
(*   - a grade as an integer number of tenths (50.0 is 500);               *)
(*   - a stored value with its Python type: float, int (a raw JSON         *)
(*     number) or str (a raw JSON string);                                 *)
(*   - the dict as a function; its iteration order (insertion order in     *)
(*     Python) is not recorded, so every operation that iterates the dict  *)
(*     takes an arbitrary enumeration of its keys.                         *)
(***************************************************************************)
EXTENDS Integers, Sequences, FiniteSets

VARIABLES
    student_grades, \* the global dict of src/main.py:55
    pc,             \* "start" | "menu" | "shown" | "crashed" | "exited"
    out             \* what the operation of this loop iteration was given and produced

vars == <<student_grades, pc, out>>

(***************************************************************************)
(* Bounds of the model.                                                    *)
(***************************************************************************)
MaxRows == 2    \* data rows of an external CSV file
MaxTop == 2     \* largest number typed at "Top N?"

(***************************************************************************)
(* Text.                                                                   *)
(***************************************************************************)
Alphabet == <<" ", "-", ".", "0", "1", "2", "3", "4", "5", "6", "7", "8", "9", "a", "b", "x">>

CharRank(c) == CHOOSE i \in 1..Len(Alphabet) : Alphabet[i] = c

DigitChars == {"0", "1", "2", "3", "4", "5", "6", "7", "8", "9"}

DigitVal(c) == CharRank(c) - 4

DigitChar(d) == Alphabet[d + 4]

\* The value a missing CSV field or an absent argument has (Python's None).
None == <<"None">>

\* Python truthiness of a text-or-None value: None and "" are false.
Truthy(x) == x # None /\ x # <<>>

\* x or y
PyOr(x, y) == IF Truthy(x) THEN x ELSE y

RECURSIVE LStrip(_)
LStrip(s) == IF s # <<>> /\ Head(s) = " " THEN LStrip(Tail(s)) ELSE s

RECURSIVE RStrip(_)
RStrip(s) ==
    IF s # <<>> /\ s[Len(s)] = " " THEN RStrip(SubSeq(s, 1, Len(s) - 1)) ELSE s

\* str.strip()
Strip(s) == RStrip(LStrip(s))

\* s < t for str (lexicographic, by code point)
RECURSIVE StrLess(_, _)
StrLess(s, t) ==
    IF t = <<>> THEN FALSE
    ELSE IF s = <<>> THEN TRUE
    ELSE IF Head(s) = Head(t) THEN StrLess(Tail(s), Tail(t))
    ELSE CharRank(Head(s)) < CharRank(Head(t))

\* q in s (substring)
Contains(q, s) ==
    \E i \in 1..(Len(s) + 1) :
        i + Len(q) - 1 <= Len(s) /\ SubSeq(s, i, i + Len(q) - 1) = q

\* str.isdigit()
IsDigits(s) == s # <<>> /\ \A i \in 1..Len(s) : s[i] \in DigitChars

\* int(s) of a digit string
RECURSIVE DigitsVal(_)
DigitsVal(s) ==
    IF s = <<>> THEN 0
    ELSE 10 * DigitsVal(SubSeq(s, 1, Len(s) - 1)) + DigitVal(s[Len(s)])

\* str(n) of a natural number
RECURSIVE NatStr(_)
NatStr(n) == IF n < 10 THEN <<DigitChar(n)>> ELSE NatStr(n \div 10) \o <<DigitChar(n % 10)>>

(***************************************************************************)
(* float(text): surrounding whitespace, an optional sign, digits with an   *)
(* optional point.  The result is in tenths; a fraction finer than a tenth *)
(* is off the model's grid and no input of the model carries one.          *)
(* (Exponents, "inf", "nan" and "_" are outside the alphabet.)             *)
(***************************************************************************)
PointAt(s) == IF \E i \in 1..Len(s) : s[i] = "." THEN CHOOSE i \in 1..Len(s) : s[i] = "." ELSE 0

UnsignedFloat(s) ==
    LET p == PointAt(s)
        ip == IF p = 0 THEN s ELSE SubSeq(s, 1, p - 1)
        fp == IF p = 0 THEN <<>> ELSE SubSeq(s, p + 1, Len(s))
        wellFormed ==
            /\ \A i \in 1..Len(ip) : ip[i] \in DigitChars
            /\ \A i \in 1..Len(fp) : fp[i] \in DigitChars
            /\ Len(ip) + Len(fp) > 0
            /\ \A i \in 2..Len(fp) : fp[i] = "0"
    IN  IF wellFormed
        THEN [ok |-> TRUE,
              v |-> 10 * DigitsVal(ip) + (IF fp = <<>> THEN 0 ELSE DigitVal(fp[1]))]
        ELSE [ok |-> FALSE, v |-> 0]

ParseFloat(text) ==
    LET t == Strip(text)
        signed == t # <<>> /\ Head(t) \in {"-", "+"}
        u == UnsignedFloat(IF signed THEN Tail(t) ELSE t)
    IN  IF t = <<>> THEN [ok |-> FALSE, v |-> 0]
        ELSE IF signed /\ Head(t) = "-" THEN [ok |-> u.ok, v |-> 0 - u.v]
        ELSE u

\* str(x) of a float, in tenths: "50.0", "7.5", "-1.0"
FloatStr(v) ==
    LET a == IF v < 0 THEN 0 - v ELSE v
    IN  (IF v < 0 THEN <<"-">> ELSE <<>>) \o NatStr(a \div 10) \o <<".", DigitChar(a % 10)>>

(***************************************************************************)
(* Stored values, with their Python type.                                  *)
(***************************************************************************)
PyFloatVal(v) == [kind |-> "float", v |-> v, s |-> <<>>]

PyIntVal(v) == [kind |-> "int", v |-> v, s |-> <<>>]

PyStrVal(s) == [kind |-> "str", v |-> 0, s |-> s]

IsNum(x) == x.kind \in {"float", "int"}

\* float(x) of a stored value or of a text: [ok, v]; not ok is the ValueError / TypeError
ToFloat(x) == IF IsNum(x) THEN [ok |-> TRUE, v |-> x.v] ELSE ParseFloat(x.s)

\* str(x), as csv.writer writes a field
ToStr(x) ==
    IF x.kind = "float" THEN FloatStr(x.v)
    ELSE IF x.kind = "int" THEN (IF x.v < 0 THEN <<"-">> \o NatStr((0 - x.v) \div 10) ELSE NatStr(x.v \div 10))
    ELSE x.s

EmptyDict == [n \in {} |-> PyFloatVal(0)]

\* d[k] = x
DictSet(d, k, x) == [n \in (DOMAIN d) \cup {k} |-> IF n = k THEN x ELSE d[n]]

\* del d[k]
DictDel(d, k) == [n \in (DOMAIN d) \ {k} |-> d[n]]

\* The enumerations of a dict's keys (one of them is its iteration order).
Orders(d) ==
    LET n == Cardinality(DOMAIN d)
    IN  {o \in [1..n -> DOMAIN d] : \A i, j \in 1..n : o[i] = o[j] => i = j}

(***************************************************************************)
(* Validation and the performance label.                                   *)
(***************************************************************************)
validate_name(name) == ~(name = <<>> \/ Strip(name) = <<>>)

validate_grade(grade) ==
    IF grade = None THEN FALSE
    ELSE LET g == ParseFloat(grade)
         IN  g.ok /\ 0 <= g.v /\ g.v <= 1000

\* evaluate_performance with the first comparison strict (g > 90)
evaluate_performance_strict(g) ==
    IF g > 900 THEN "Excellent"
    ELSE IF g >= 750 THEN "Good"
    ELSE IF g >= 500 THEN "Average"
    ELSE "Needs Improvement"

evaluate_performance(g) ==
    IF g >= 900 THEN "Excellent"
    ELSE IF g >= 750 THEN "Good"
    ELSE IF g >= 500 THEN "Average"
    ELSE "Needs Improvement"

(***************************************************************************)
(* add_student, update_student, delete_student: the dict after the call    *)
(* and the message printed.                                                *)
(***************************************************************************)
\* add_student storing under the name as given (line 105 left out)
add_student_unstripped(d, name0, grade) ==
    IF ~validate_name(name0) THEN [dict |-> d, msg |-> "Invalid name"]
    ELSE IF ~validate_grade(grade) THEN [dict |-> d, msg |-> "Invalid grade"]
    ELSE [dict |-> DictSet(d, name0, PyFloatVal(ParseFloat(grade).v)), msg |-> "Added"]

add_student(d, name0, grade) ==
    LET name == Strip(name0)
    IN  IF ~validate_name(name) THEN [dict |-> d, msg |-> "Invalid name"]
        ELSE IF ~validate_grade(grade) THEN [dict |-> d, msg |-> "Invalid grade"]
        ELSE [dict |-> DictSet(d, name, PyFloatVal(ParseFloat(grade).v)), msg |-> "Added"]

\* update_student without the membership test of lines 117-119
update_student_unchecked(d, name0, grade) ==
    LET name == Strip(name0)
    IN  IF ~validate_grade(grade) THEN [dict |-> d, msg |-> "Invalid grade"]
        ELSE [dict |-> DictSet(d, name, PyFloatVal(ParseFloat(grade).v)), msg |-> "Updated"]

update_student(d, name0, grade) ==
    LET name == Strip(name0)
    IN  IF name \notin DOMAIN d THEN [dict |-> d, msg |-> "not found"]
        ELSE IF ~validate_grade(grade) THEN [dict |-> d, msg |-> "Invalid grade"]
        ELSE [dict |-> DictSet(d, name, PyFloatVal(ParseFloat(grade).v)), msg |-> "Updated"]

delete_student(d, name0) ==
    LET name == Strip(name0)
    IN  IF name \in DOMAIN d THEN [dict |-> DictDel(d, name), msg |-> "Deleted"]
        ELSE [dict |-> d, msg |-> "not found"]

(***************************************************************************)
(* load_data.  The snapshot file is absent, is not JSON, or holds a JSON   *)
(* object.  Line 62 binds the global to what json.load returned before     *)
(* line 64 converts the values, so a conversion that raises leaves the raw *)
(* object in the global.  (A snapshot whose top level is not an object     *)
(* leaves a non-dict in the global; the model has no such snapshot.)       *)
(***************************************************************************)
load_data(d, snap) ==
    IF snap.kind = "absent" THEN [dict |-> d, msg |-> "No existing data file"]
    ELSE IF snap.kind = "corrupt" THEN [dict |-> d, msg |-> "Failed to load"]
    ELSE LET raw == snap.obj
         IN  IF \A n \in DOMAIN raw : ToFloat(raw[n]).ok
             THEN [dict |-> [n \in DOMAIN raw |-> PyFloatVal(ToFloat(raw[n]).v)],
                   msg |-> "Loaded"]
             ELSE [dict |-> raw, msg |-> "Failed to load"]

(***************************************************************************)
(* sorted(): a stable sort of a sequence of records by their key field     *)
(* (mode "num": numbers, mode "str": text), reverse as Python's reverse=.  *)
(***************************************************************************)
KeyLess(x, y, mode) == IF mode = "num" THEN x < y ELSE StrLess(x, y)

Before(x, y, mode, reverse) ==
    IF reverse THEN KeyLess(y.key, x.key, mode) ELSE KeyLess(x.key, y.key, mode)

SortInsert(x, s, mode, reverse) ==
    LET k == Cardinality({i \in 1..Len(s) : ~Before(x, s[i], mode, reverse)})
    IN  SubSeq(s, 1, k) \o <<x>> \o SubSeq(s, k + 1, Len(s))

RECURSIVE Sorted(_, _, _)
Sorted(s, mode, reverse) ==
    IF s = <<>> THEN <<>>
    ELSE SortInsert(s[Len(s)], Sorted(SubSeq(s, 1, Len(s) - 1), mode, reverse), mode, reverse)

\* list[:n]
SliceTo(s, n) ==
    IF n >= 0 THEN SubSeq(s, 1, IF n < Len(s) THEN n ELSE Len(s))
    ELSE SubSeq(s, 1, IF Len(s) + n > 0 THEN Len(s) + n ELSE 0)

\* The index of the first element of s that satisfies bad, or Len(s) + 1.
FirstBad(s, bad) ==
    IF \E i \in 1..Len(s) : bad[i] THEN CHOOSE i \in 1..Len(s) : bad[i] /\ \A j \in 1..(i - 1) : ~bad[j]
    ELSE Len(s) + 1

Row(name, x) == [name |-> name, grade |-> ToFloat(x).v, label |-> evaluate_performance(ToFloat(x).v)]

(***************************************************************************)
(* display_all_students, search_student, sort_and_display: the rows        *)
(* printed, and whether the call raised (nothing in main catches it).      *)
(***************************************************************************)
display_all_students(d, order, sorted_by, reverse) ==
    IF DOMAIN d = {} THEN [msg |-> "No students found", rows |-> <<>>, raised |-> FALSE]
    ELSE IF \E n \in DOMAIN d : ~ToFloat(d[n]).ok
    THEN [msg |-> "ValueError", rows |-> <<>>, raised |-> TRUE]
    ELSE LET rows == [i \in 1..Len(order) |-> Row(order[i], d[order[i]])]
             byName == [i \in 1..Len(rows) |-> [key |-> rows[i].name, row |-> rows[i]]]
             byGrade == [i \in 1..Len(rows) |-> [key |-> rows[i].grade, row |-> rows[i]]]
             s == IF sorted_by = "name" THEN Sorted(byName, "str", reverse)
                  ELSE IF sorted_by = "grade" THEN Sorted(byGrade, "num", reverse)
                  ELSE byName
         IN  [msg |-> "table", rows |-> [i \in 1..Len(s) |-> s[i].row], raised |-> FALSE]

\* (lower() changes nothing: the alphabet has no upper case)
search_student(d, order, query0) ==
    LET query == Strip(query0)
        hits == {n \in DOMAIN d : Contains(query, n)}
        hitIdx == {i \in 1..Len(order) : order[i] \in hits}
        results == [k \in 1..Cardinality(hits) |->
                      order[CHOOSE i \in hitIdx : Cardinality({j \in hitIdx : j < i}) = k - 1]]
        bad == [k \in 1..Len(results) |-> ~ToFloat(d[results[k]]).ok]
        stop == FirstBad(results, bad)
    IN  IF hits = {} THEN [msg |-> "No matching students found", rows |-> <<>>, raised |-> FALSE]
        ELSE [msg |-> IF stop <= Len(results) THEN "ValueError" ELSE "Found",
              rows |-> [k \in 1..(stop - 1) |-> Row(results[k], d[results[k]])],
              raised |-> stop <= Len(results)]

sort_and_display(d, order, by, top_n, reverse, has_tabulate) ==
    LET items == [i \in 1..Len(order) |-> [name |-> order[i], val |-> d[order[i]]]]
        anyStr == \E n \in DOMAIN d : d[n].kind = "str"
        anyNum == \E n \in DOMAIN d : IsNum(d[n])
        keyed == [i \in 1..Len(items) |->
                    [key |-> IF by = "grade"
                             THEN (IF anyStr THEN items[i].val.s ELSE items[i].val.v)
                             ELSE items[i].name,
                     item |-> items[i]]]
        sorted_list == Sorted(keyed, IF by = "grade" /\ ~anyStr THEN "num" ELSE "str", reverse)
        cut == IF top_n.some /\ top_n.n # 0 THEN SliceTo(sorted_list, top_n.n) ELSE sorted_list
        rows == [i \in 1..Len(cut) |-> Row(cut[i].item.name, cut[i].item.val)]
        strRow == [i \in 1..Len(cut) |-> cut[i].item.val.kind = "str"]
        stop == IF has_tabulate THEN Len(cut) + 1 ELSE FirstBad(cut, strRow)
    IN  IF DOMAIN d = {} THEN [msg |-> "No students to show", rows |-> <<>>, raised |-> FALSE]
        ELSE IF by = "grade" /\ anyStr /\ anyNum
        THEN [msg |-> "TypeError", rows |-> <<>>, raised |-> TRUE]
        ELSE IF \E i \in 1..Len(cut) : ~ToFloat(cut[i].item.val).ok
        THEN [msg |-> "ValueError", rows |-> <<>>, raised |-> TRUE]
        ELSE [msg |-> IF stop <= Len(cut) THEN "ValueError" ELSE "table",
              rows |-> SubSeq(rows, 1, stop - 1),
              raised |-> stop <= Len(cut)]

\* main, lines 289-293: what the three answers of choice 6 become
ParseTop(top) ==
    IF IsDigits(top) /\ DigitsVal(top) > 0 THEN [some |-> TRUE, n |-> DigitsVal(top)]
    ELSE [some |-> FALSE, n |-> 0]

(***************************************************************************)
(* show_statistics.  mean and median are kept exact, as fractions          *)
(* num / den of tenths.                                                    *)
(***************************************************************************)
RECURSIVE SumSeq(_)
SumSeq(s) == IF s = <<>> THEN 0 ELSE s[1] + SumSeq(Tail(s))

median(data) ==
    LET n == Len(data)
        i == n \div 2
    IN  IF n % 2 = 1 THEN [num |-> data[i + 1], den |-> 1]
        ELSE [num |-> data[i] + data[i + 1], den |-> 2]

show_statistics(d, order) ==
    IF DOMAIN d = {} THEN [msg |-> "No data to calculate statistics", raised |-> FALSE]
    ELSE IF \E n \in DOMAIN d : d[n].kind = "str" THEN [msg |-> "TypeError", raised |-> TRUE]
    ELSE LET grades == [i \in 1..Len(order) |-> d[order[i]].v]
             keyed == [i \in 1..Len(grades) |-> [key |-> grades[i]]]
             data == [i \in 1..Len(grades) |-> Sorted(keyed, "num", FALSE)[i].key]
         IN  [msg |-> "Grade Statistics", raised |-> FALSE,
              total |-> Len(grades),
              avg |-> [num |-> SumSeq(grades), den |-> Len(grades)],
              med |-> median(data),
              mx |-> data[Len(data)],
              mn |-> data[1]]

(***************************************************************************)
(* CSV.  A file is its header and its data rows, each row the sequence of  *)
(* its fields; csv.writer and csv.reader are taken to carry the model's    *)
(* fields (no quote, comma or line break in the alphabet) unchanged.       *)
(***************************************************************************)
export_csv(d, order) ==
    [header |-> <<"Name", "Grade">>,
     rows |-> [i \in 1..Len(order) |-> <<order[i], ToStr(d[order[i]])>>]]

\* row.get(col) of csv.DictReader: a short row leaves its last columns None
RowGet(header, row, col) ==
    IF \E i \in 1..Len(header) : header[i] = col
    THEN LET i == CHOOSE i \in 1..Len(header) : header[i] = col
         IN  IF i <= Len(row) THEN row[i] ELSE None
    ELSE None

\* the loop body taking any grade that float() accepts (no range test)
import_row_any_number(acc, header, row) ==
    LET name == PyOr(RowGet(header, row, "Name"), RowGet(header, row, "name"))
        grade == PyOr(RowGet(header, row, "Grade"), RowGet(header, row, "grade"))
    IN  IF Truthy(name) /\ grade # None /\ ParseFloat(grade).ok
        THEN [dict |-> DictSet(acc.dict, Strip(name), PyFloatVal(ParseFloat(grade).v)),
              count |-> acc.count + 1]
        ELSE acc

\* the body of the for loop, lines 221-225
import_row(acc, header, row) ==
    LET name == PyOr(RowGet(header, row, "Name"), RowGet(header, row, "name"))
        grade == PyOr(RowGet(header, row, "Grade"), RowGet(header, row, "grade"))
    IN  IF Truthy(name) /\ validate_grade(grade)
        THEN [dict |-> DictSet(acc.dict, Strip(name), PyFloatVal(ParseFloat(grade).v)),
              count |-> acc.count + 1]
        ELSE acc

RECURSIVE import_rows(_, _, _)
import_rows(d, header, rows) ==
    IF rows = <<>> THEN [dict |-> d, count |-> 0]
    ELSE import_row(import_rows(d, header, SubSeq(rows, 1, Len(rows) - 1)), header, rows[Len(rows)])

\* import_csv of a file that exists; unread is how many of its rows are left
\* when the reader raises (0: it reads them all)
import_csv(d, file, unread) ==
    LET r == import_rows(d, file.header, SubSeq(file.rows, 1, Len(file.rows) - unread))
    IN  IF unread = 0
        THEN [dict |-> r.dict, msg |-> "Imported", report |-> [imported |-> r.count]]
        ELSE [dict |-> r.dict, msg |-> "Import failed", report |-> [x \in {} |-> 0]]

(***************************************************************************)
(* Inputs.                                                                 *)
(***************************************************************************)
NameInputs == {<<>>, <<" ">>, <<"a">>, <<" ", "a">>, <<"b", " ">>}

GradeInputs ==
    {<<"0">>, <<"7", ".", "5">>, <<"1", "0", "0">>, <<"1", "0", "0", ".", "1">>,
     <<"-", "1">>, <<"x">>, <<>>}

SearchInputs == {<<>>, <<"a", " ">>, <<"b">>, <<"x">>}

TopInputs == {<<>>, <<"-", "1">>} \cup {NatStr(n) : n \in 0..MaxTop}

\* The snapshot file: absent, not JSON, {}, {"a": 100}, {"a": 150},
\* {"a": "7.5"}, {"a": "x"}, {"a": 100, "b": "x"}
Snapshots ==
    {[kind |-> "absent"], [kind |-> "corrupt"],
     [kind |-> "object", obj |-> EmptyDict],
     [kind |-> "object", obj |-> DictSet(EmptyDict, <<"a">>, PyIntVal(1000))],
     [kind |-> "object", obj |-> DictSet(EmptyDict, <<"a">>, PyIntVal(1500))],
     [kind |-> "object", obj |-> DictSet(EmptyDict, <<"a">>, PyStrVal(<<"7", ".", "5">>))],
     [kind |-> "object", obj |-> DictSet(EmptyDict, <<"a">>, PyStrVal(<<"x">>))],
     [kind |-> "object",
      obj |-> DictSet(DictSet(EmptyDict, <<"a">>, PyIntVal(1000)), <<"b">>, PyStrVal(<<"x">>))]}

\* The header of an external CSV file: one column in each accepted case.
CsvHeader == <<"name", "Grade">>

\* a,7.5 / " a",100 / b,100.1 / b (no grade) / "",0 / " ",0
CsvRows ==
    {<<<<"a">>, <<"7", ".", "5">>>>,
     <<<<" ", "a">>, <<"1", "0", "0">>>>,
     <<<<"b">>, <<"1", "0", "0", ".", "1">>>>,
     <<<<"b">>>>,
     <<<<>>, <<"0">>>>,
     <<<<" ">>, <<"0">>>>}

ExternalFiles ==
    {[header |-> CsvHeader, rows |-> r] : r \in UNION {[1..n -> CsvRows] : n \in 0..MaxRows}}

(***************************************************************************)
(* The program: main.  One action is one iteration of the while loop (one  *)
(* menu choice with its answers); PrintMenu is the loop coming round.      *)
(***************************************************************************)
Init ==
    /\ student_grades = EmptyDict
    /\ pc = "start"
    /\ out = [op |-> "none"]

\* main, line 249
LoadData ==
    /\ pc = "start"
    /\ \E snap \in Snapshots :
        LET r == load_data(student_grades, snap)
        IN  /\ student_grades' = r.dict
            /\ out' = [op |-> "load", snap |-> snap, msg |-> r.msg]
    /\ pc' = "shown"

\* the while loop comes round: print_menu
PrintMenu ==
    /\ pc = "shown"
    /\ pc' = "menu"
    /\ out' = [op |-> "none"]
    /\ UNCHANGED student_grades

\* choice 1
AddStudent ==
    /\ pc = "menu"
    /\ \E name \in NameInputs, grade \in GradeInputs :
        LET r == add_student(student_grades, name, grade)
        IN  /\ student_grades' = r.dict
            /\ out' = [op |-> "add", name |-> name, grade |-> grade, msg |-> r.msg]
    /\ pc' = "shown"

\* choice 2
UpdateStudent ==
    /\ pc = "menu"
    /\ \E name \in NameInputs, grade \in GradeInputs :
        LET r == update_student(student_grades, name, grade)
        IN  /\ student_grades' = r.dict
            /\ out' = [op |-> "update", name |-> name, grade |-> grade, msg |-> r.msg]
    /\ pc' = "shown"

\* choice 3, confirmed
DeleteStudent ==
    /\ pc = "menu"
    /\ \E name \in NameInputs :
        LET r == delete_student(student_grades, name)
        IN  /\ student_grades' = r.dict
            /\ out' = [op |-> "delete", name |-> name, msg |-> r.msg]
    /\ pc' = "shown"

\* choice 4: none, name (ascending) or grade (descending)
ViewAll ==
    /\ pc = "menu"
    /\ \E order \in Orders(student_grades), s \in {"none", "name", "grade"} :
        LET r == display_all_students(student_grades, order, s, s = "grade")
        IN  /\ out' = [op |-> "display", sorted_by |-> s, msg |-> r.msg, rows |-> r.rows]
            /\ pc' = IF r.raised THEN "crashed" ELSE "shown"
    /\ UNCHANGED student_grades

\* choice 5
SearchStudent ==
    /\ pc = "menu"
    /\ \E order \in Orders(student_grades), q \in SearchInputs :
        LET r == search_student(student_grades, order, q)
        IN  /\ out' = [op |-> "search", query |-> q, msg |-> r.msg, rows |-> r.rows]
            /\ pc' = IF r.raised THEN "crashed" ELSE "shown"
    /\ UNCHANGED student_grades

\* choice 6; HAS_TABULATE is what the installation has
SortAndView ==
    /\ pc = "menu"
    /\ \E order \in Orders(student_grades), by \in {"grade", "name"}, rev \in BOOLEAN,
          top \in TopInputs, has_tabulate \in BOOLEAN :
        LET r == sort_and_display(student_grades, order, by, ParseTop(top), rev, has_tabulate)
        IN  /\ out' = [op |-> "sort", by |-> by, reverse |-> rev, top |-> top,
                       msg |-> r.msg, rows |-> r.rows]
            /\ pc' = IF r.raised THEN "crashed" ELSE "shown"
    /\ UNCHANGED student_grades

\* choice 7
ShowStatistics ==
    /\ pc = "menu"
    /\ \E order \in Orders(student_grades) :
        LET r == show_statistics(student_grades, order)
        IN  /\ out' = [op |-> "stats", stats |-> r]
            /\ pc' = IF r.raised THEN "crashed" ELSE "shown"
    /\ UNCHANGED student_grades

\* choice 8; the write succeeds or raises
ExportCsv ==
    /\ pc = "menu"
    /\ \E order \in Orders(student_grades), ok \in BOOLEAN :
        out' = IF ok THEN [op |-> "export", msg |-> "Exported",
                           file |-> export_csv(student_grades, order)]
               ELSE [op |-> "export", msg |-> "Export failed"]
    /\ pc' = "shown"
    /\ UNCHANGED student_grades

ImportFile(file) ==
    \E unread \in 0..Len(file.rows) :
        LET r == import_csv(student_grades, file, unread)
        IN  /\ student_grades' = r.dict
            /\ out' = [op |-> "import", file |-> file, msg |-> r.msg, report |-> r.report]
            /\ pc' = "shown"

\* choice 9, of a file written by something else
ImportCsv ==
    /\ pc = "menu"
    /\ \E file \in ExternalFiles : ImportFile(file)

\* choice 9, of a file that does not exist
ImportMissing ==
    /\ pc = "menu"
    /\ out' = [op |-> "import", msg |-> "CSV file not found"]
    /\ pc' = "shown"
    /\ UNCHANGED student_grades

\* choice 8 and then choice 9 of the file just written (after the menu has
\* come round the exported file is one more external file)
ImportExported ==
    /\ pc = "shown"
    /\ out.op = "export"
    /\ out.msg = "Exported"
    /\ ImportFile(out.file)

\* choice 10; the write succeeds or raises
SaveData ==
    /\ pc = "menu"
    /\ \E ok \in BOOLEAN :
        out' = [op |-> "save", msg |-> IF ok THEN "Data saved" ELSE "Failed to save"]
    /\ pc' = "shown"
    /\ UNCHANGED student_grades

\* choice 0: AUTO_SAVE_ON_EXIT
Exit ==
    /\ pc = "menu"
    /\ \E ok \in BOOLEAN :
        out' = [op |-> "exit", msg |-> IF ok THEN "Data saved" ELSE "Failed to save"]
    /\ pc' = "exited"
    /\ UNCHANGED student_grades

Next ==
    \/ LoadData
    \/ PrintMenu
    \/ AddStudent
    \/ UpdateStudent
    \/ DeleteStudent
    \/ ViewAll
    \/ SearchStudent
    \/ SortAndView
    \/ ShowStatistics
    \/ ExportCsv
    \/ ImportCsv
    \/ ImportMissing
    \/ ImportExported
    \/ SaveData
    \/ Exit

Spec == Init /\ [][Next]_vars

(***************************************************************************)
(* The label function on the whole grade range: two students one tenth     *)
(* apart, every grade from 0.0 to 100.0, and the operations that show a    *)
(* label.                                                                  *)
(***************************************************************************)
InitEval ==
    /\ \E g \in 0..999 :
        student_grades =
            DictSet(DictSet(EmptyDict, <<"a">>, PyFloatVal(g)), <<"b">>, PyFloatVal(g + 1))
    /\ pc = "menu"
    /\ out = [op |-> "none"]

NextEval == ViewAll \/ SearchStudent \/ SortAndView \/ PrintMenu

SpecEval == InitEval /\ [][NextEval]_vars

(***************************************************************************)
(* The claims.                                                             *)
(***************************************************************************)
\* A grade text that is a number within [0, 100].
NumericInRange(text) == text # None /\ ParseFloat(text).ok /\ ParseFloat(text).v \in 0..1000

Values(d) == {d[n] : n \in DOMAIN d}

\* Python's == on two dicts: the same keys, and values that compare equal.
SameMapping(d, e) ==
    /\ DOMAIN d = DOMAIN e
    /\ \A n \in DOMAIN d : IF IsNum(d[n]) /\ IsNum(e[n]) THEN d[n].v = e[n].v ELSE d[n] = e[n]

\* C1: every grade held in the store is within [0.0, 100.0], in every state
\* reachable by load_data at start and then add, update, delete and import.
GradeRange ==
    \A n \in DOMAIN student_grades :
        IsNum(student_grades[n]) => student_grades[n].v \in 0..1000

\* C2: every key of the store is a non-empty text without leading or
\* trailing whitespace.
NamesTrimmed ==
    \A n \in DOMAIN student_grades : n # <<>> /\ Strip(n) = n

\* The step is an add, update or delete that the claim says is rejected.
RejectedStep ==
    \/ /\ out'.op = "add"
       /\ Strip(out'.name) = <<>> \/ ~NumericInRange(out'.grade)
    \/ /\ out'.op = "update"
       /\ Strip(out'.name) \notin DOMAIN student_grades \/ ~NumericInRange(out'.grade)
    \/ /\ out'.op = "delete"
       /\ Strip(out'.name) \notin DOMAIN student_grades

\* C3: an add with a blank name or an invalid grade, an update of a name
\* (trimmed) that is not in the store or with an invalid grade, and a delete
\* of a name that is not in the store leave the store as it was.
RejectedLeavesStore == [][RejectedStep => student_grades' = student_grades]_vars

\* C3: an update of a student who exists was rejected for its grade.
RejectedWitness ==
    /\ pc = "shown"
    /\ out.op = "update"
    /\ Strip(out.name) \in DOMAIN student_grades
    /\ out.msg = "Invalid grade"

\* C4: after add_student of a valid (name, grade) the store holds the given
\* grade under the trimmed name, every other entry is as before, and the same
\* call again changes nothing.
AddLastWriteWins ==
    [][(out'.op = "add" /\ Strip(out'.name) # <<>> /\ NumericInRange(out'.grade)) =>
        LET k == Strip(out'.name)
        IN  /\ DOMAIN student_grades' = (DOMAIN student_grades) \cup {k}
            /\ student_grades'[k] = PyFloatVal(ParseFloat(out'.grade).v)
            /\ \A n \in (DOMAIN student_grades) \ {k} : student_grades'[n] = student_grades[n]
            /\ add_student(student_grades', out'.name, out'.grade).dict = student_grades'
      ]_vars

\* C4: a student was added, with a name given untrimmed, beside another one.
AddWitness ==
    /\ pc = "shown"
    /\ out.op = "add"
    /\ out.msg = "Added"
    /\ out.name # Strip(out.name)
    /\ Cardinality(DOMAIN student_grades) = 2

\* C5: a load, save (also the one at exit) or export that fails leaves the
\* store as it was before the call.
FailedIoLeavesStore ==
    [][(\/ out'.op = "load" /\ out'.msg # "Loaded"
        \/ out'.op \in {"save", "exit"} /\ out'.msg = "Failed to save"
        \/ out'.op = "export" /\ out'.msg = "Export failed")
       => student_grades' = student_grades]_vars

\* The field of data row i in the column whose header is one of names.
Field(file, i, names) ==
    LET cols == {j \in 1..Len(file.header) : file.header[j] \in names}
    IN  IF \E j \in cols : j <= Len(file.rows[i])
        THEN file.rows[i][CHOOSE j \in cols : j <= Len(file.rows[i])]
        ELSE None

\* Data row i has a name and a grade that passes validation.
Acceptable(file, i) ==
    /\ Field(file, i, {"Name", "name"}) \notin {None, <<>>}
    /\ NumericInRange(Field(file, i, {"Grade", "grade"}))

\* What the claim says of an import that read its file: it does not raise, it
\* reports the number of acceptable rows, and the store is the old one with
\* each acceptable row written under its trimmed name, the last such row of a
\* name winning.
ImportAccepts ==
    LET file == out'.file
        acc == {i \in 1..Len(file.rows) : Acceptable(file, i)}
        key(i) == Strip(Field(file, i, {"Name", "name"}))
        last(n) == CHOOSE i \in acc : key(i) = n /\ \A j \in acc : key(j) = n => j <= i
    IN  /\ pc' = "shown"
        /\ out'.report.imported = Cardinality(acc)
        /\ DOMAIN student_grades' = (DOMAIN student_grades) \cup {key(i) : i \in acc}
        /\ \A n \in DOMAIN student_grades' :
            student_grades'[n] =
                IF \E i \in acc : key(i) = n
                THEN PyFloatVal(ParseFloat(Field(file, last(n), {"Grade", "grade"})).v)
                ELSE student_grades[n]

ExportImportRoundTrip ==
    [][(/\ out.op = "export" /\ out.msg = "Exported"
        /\ out'.op = "import" /\ out'.msg = "Imported" /\ out'.file = out.file) =>
        /\ SameMapping(student_grades', student_grades)
        /\ SameMapping(import_csv(EmptyDict, out.file, 0).dict,
                       student_grades)
        /\ out'.report.imported = Cardinality(DOMAIN student_grades)]_vars

Tier(label) ==
    CASE label = "Excellent" -> 3
      [] label = "Good" -> 2
      [] label = "Average" -> 1
      [] OTHER -> 0

\* C7 on the stores whose names are trimmed and whose values are floats
\* within [0, 100].
RoundTripOfValidStore ==
    [][(/\ out.op = "export" /\ out.msg = "Exported"
        /\ out'.op = "import" /\ out'.msg = "Imported" /\ out'.file = out.file
        /\ NamesTrimmed
        /\ \A x \in Values(student_grades) : x.kind = "float" /\ x.v \in 0..1000) =>
        /\ student_grades' = student_grades
        /\ import_csv(EmptyDict, out.file, 0).dict = student_grades
        /\ out'.report.imported = Cardinality(DOMAIN student_grades)]_vars

\* C8: every label shown by display, search and sort is the label of the
\* grade stored for that student: Excellent iff g >= 90, Good iff
\* 75 <= g < 90, Average iff 50 <= g < 75, Needs Improvement iff g < 50; and
\* of two labels shown, the one of the higher grade is of no lower tier.
LabelShown ==
    out.op \in {"display", "search", "sort"} =>
        \A i \in 1..Len(out.rows) :
            LET r == out.rows[i]
                g == ToFloat(student_grades[r.name]).v
            IN  /\ r.label \in {"Excellent", "Good", "Average", "Needs Improvement"}
                /\ g \in 0..1000 =>
                    /\ r.label = "Excellent" <=> g >= 900
                    /\ r.label = "Good" <=> (750 <= g /\ g < 900)
                    /\ r.label = "Average" <=> (500 <= g /\ g < 750)
                    /\ r.label = "Needs Improvement" <=> g < 500
                /\ \A j \in 1..Len(out.rows) :
                    g <= ToFloat(student_grades[out.rows[j].name]).v
                        => Tier(r.label) <= Tier(out.rows[j].label)

\* C8: the sort showed a student at 89.9 as Good and one at 90.0 as Excellent.
LabelWitness ==
    /\ pc = "shown"
    /\ out.op = "sort"
    /\ \E i, j \in 1..Len(out.rows) :
        /\ out.rows[i].grade = 899 /\ out.rows[i].label = "Good"
        /\ out.rows[j].grade = 900 /\ out.rows[j].label = "Excellent"

\* The number typed at "Top N?", when it is one and is positive; 0 otherwise.
TopAsked(top) == IF ParseFloat(top).ok /\ ParseFloat(top).v > 0 THEN ParseFloat(top).v \div 10 ELSE 0

\* Row r may stand before row s in the order asked for.
InOrder(r, s, by, reverse) ==
    LET le(x, y) == IF by = "grade" THEN x.grade <= y.grade ELSE ~StrLess(y.name, x.name)
    IN  IF reverse THEN le(s, r) ELSE le(r, s)

\* What the claim says of the rows a sort of a non-empty store shows.
TopNRows ==
    LET rows == out.rows
        n == TopAsked(out.top)
        size == Cardinality(DOMAIN student_grades)
        shown == {rows[i].name : i \in 1..Len(rows)}
        entry(name) == [name |-> name, grade |-> ToFloat(student_grades[name]).v]
    IN  /\ out.msg = "table"
        /\ Len(rows) = IF n > 0 /\ n < size THEN n ELSE size
        /\ shown \subseteq DOMAIN student_grades
        /\ Cardinality(shown) = Len(rows)
        /\ \A i \in 1..Len(rows) : rows[i].grade = entry(rows[i].name).grade
        /\ \A i \in 1..(Len(rows) - 1) : InOrder(rows[i], rows[i + 1], out.by, out.reverse)
        /\ \A i \in 1..Len(rows) : \A m \in (DOMAIN student_grades) \ shown :
            InOrder(rows[i], entry(m), out.by, out.reverse)

\* C9: for every non-empty store, key, direction and n, sort_and_display shows
\* the entries in order, the first n of them when n > 0 and all of them
\* otherwise.
TopNSorted == (out.op = "sort" /\ DOMAIN student_grades # {}) => TopNRows

\* C9 on the stores that hold numbers only.
TopNSortedOfNumbers ==
    (out.op = "sort" /\ DOMAIN student_grades # {}
        /\ \A x \in Values(student_grades) : IsNum(x)) => TopNRows

RECURSIVE SumOver(_, _)
SumOver(d, names) ==
    IF names = {} THEN 0
    ELSE LET n == CHOOSE n \in names : TRUE
         IN  d[n].v + SumOver(d, names \ {n})

\* x is the k-th smallest grade of the store (k from 1).
KthSmallest(d, x, k) ==
    /\ Cardinality({n \in DOMAIN d : d[n].v < x}) < k
    /\ Cardinality({n \in DOMAIN d : d[n].v <= x}) >= k

\* What the claim says show_statistics reports.
StatisticsRows ==
    LET d == student_grades
        r == out.stats
        size == Cardinality(DOMAIN d)
        grades == {d[n].v : n \in DOMAIN d}
    IN  IF DOMAIN d = {} THEN r.msg = "No data to calculate statistics"
        ELSE /\ r.msg = "Grade Statistics"
             /\ r.total = size
             /\ r.avg.num * size = SumOver(d, DOMAIN d) * r.avg.den
             /\ \E lo, hi \in grades :
                 /\ KthSmallest(d, lo, (size + 1) \div 2)
                 /\ KthSmallest(d, hi, (size \div 2) + 1)
                 /\ 2 * r.med.num = (lo + hi) * r.med.den
             /\ r.mx \in grades /\ \A g \in grades : g <= r.mx
             /\ r.mn \in grades /\ \A g \in grades : r.mn <= g

\* C10: show_statistics reports EmptyStore on an empty store, and on every
\* non-empty store the count, mean, median, maximum and minimum of the grades.
StatisticsReport == out.op = "stats" => StatisticsRows

\* C10 on the stores that hold numbers only.
StatisticsOfNumbers ==
    (out.op = "stats" /\ \A x \in Values(student_grades) : IsNum(x)) => StatisticsRows

====
